---- MODULE Spec2Model ----
(***************************************************************************)
(* A model of the lettr-rust client: the request core (Config::new,        *)
(* Config::build, Config::send), the error taxonomy (RawErrorResponse and  *)
(* its conversion into Error), and the thirteen endpoint operations of the *)
(* client and its four services.                                           *)
(*                                                                         *)
(* One call is followed from the moment an operation builds and dispatches *)
(* its request, across the await points of the code (request.send(),       *)
(* response.text(), response.json()), to the value the operation returns.  *)
(* The network is the environment: it fails the exchange, or answers with  *)
(* a status and a body, and the body stream completes or breaks.           *)
(***************************************************************************)
EXTENDS Integers, Sequences, FiniteSets, TLC

\* ---------------------------------------------------------------- bounds

\* how many times the client value is cloned (Lettr derives Clone)
MaxClones == 1

\* longest list of messages under one field of an `errors` map
MaxMsgs == 2

\* how many callers use the client at the same time
NumCallers == 2

\* how many builder methods are called on one options value
MaxBuilderCalls == 3

\* ------------------------------------------------------ JSON values

\* A JSON value is a tagged tuple; Absent stands for a key that is not in
\* the object at all.
Absent == <<"absent">>
JNull == <<"null">>
JStr(s) == <<"str", s>>
JNum(n) == <<"num", n>>
JBool(b) == <<"bool", b>>
JList(items) == <<"list", items>>
JMap(f) == <<"map", f>>

JTag(v) == v[1]

\* Option<T> of the Rust code
None == <<>>
Some(x) == <<x>>

\* ------------------------------------------------------ configuration

BASE_URL == "https://app.lettr.com/api"

CARGO_PKG_VERSION == "0.1.0"

ApiKeys == {"key-one", "key-two"}

HeaderNames == {"authorization", "content-type", "user-agent"}

\* Config::new as it would be if the Authorization header were the key alone
ConfigNewRawKey(api_key) ==
    [ http     |-> [ default_headers |-> [ h \in HeaderNames |->
                      CASE h = "authorization" -> api_key
                        [] h = "content-type"  -> "application/json"
                        [] h = "user-agent"    -> "lettr-rust/" \o CARGO_PKG_VERSION ] ],
      base_url |-> BASE_URL ]

\* Config::new: the HTTP client with the three default headers, and the base
\* URL.
ConfigNew(api_key) ==
    [ http     |-> [ default_headers |-> [ h \in HeaderNames |->
                      CASE h = "authorization" -> "Bearer " \o api_key
                        [] h = "content-type"  -> "application/json"
                        [] h = "user-agent"    -> "lettr-rust/" \o CARGO_PKG_VERSION ] ],
      base_url |-> BASE_URL ]

\* Lettr::new: one Arc<Config>, shared by the four services and the client.
\* An Arc is the index of the configuration in the heap of configurations.
LettrNew(arc) ==
    [ emails |-> arc, domains |-> arc, webhooks |-> arc, templates |-> arc,
      config |-> arc ]

\* #[derive(Clone)] on Lettr and on the services: every Arc is cloned, that is
\* the clone points at the same configuration.
LettrClone(l) ==
    [ emails |-> l.emails, domains |-> l.domains, webhooks |-> l.webhooks,
      templates |-> l.templates, config |-> l.config ]

\* ------------------------------------------------------ requests

NoHeaders == [h \in {} |-> ""]

\* Config::build: a request builder of the configuration's HTTP client; the
\* URL is the base URL followed by the path; the request has no query, no
\* body and no header of its own yet.
ConfigBuild(cfg, method, path) ==
    [ client |-> cfg.http, method |-> method, url |-> cfg.base_url \o path,
      query |-> <<>>, body |-> <<"none">>, headers |-> NoHeaders ]

\* RequestBuilder::query with one pair: the pair is appended to the query.
Query(req, name, value) ==
    [req EXCEPT !.query = Append(@, <<name, value>>)]

\* RequestBuilder::json: the serialized value becomes the body, and the
\* request gets a Content-Type of its own unless it has one.
Json(req, value) ==
    [req EXCEPT !.body = <<"json", value>>,
                !.headers = IF "content-type" \in DOMAIN @ THEN @
                            ELSE [h \in DOMAIN @ \cup {"content-type"} |->
                                   IF h = "content-type" THEN "application/json"
                                   ELSE @[h]]]

\* the identifiers the operations are called with, and the characters of each
Ids == {"example.com", "no such id"}

IdChars(id) ==
    CASE id = "example.com" -> <<"e", "x", "a", "m", "p", "l", "e", ".", "c", "o", "m">>
      [] id = "no such id" -> <<"n", "o", " ", "s", "u", "c", "h", " ", "i", "d">>

\* Url::parse on one character of a path: the characters outside the path
\* set go out percent-encoded
PercentEncode(c) ==
    CASE c = " " -> "%20"
      [] c = "<" -> "%3C"
      [] c = ">" -> "%3E"
      [] c = "{" -> "%7B"
      [] c = "}" -> "%7D"
      [] OTHER -> c

RECURSIVE EncodePath(_)
EncodePath(chars) ==
    IF chars = <<>> THEN ""
    ELSE PercentEncode(Head(chars)) \o EncodePath(Tail(chars))

\* the paths that end in an identifier
IdPaths == {"/emails/", "/domains/", "/webhooks/"}

\* Client::request(method, url) parses the string into a Url: the fixed parts
\* of the URLs of this client stay as they are, the identifier at the end of
\* a path is encoded character by character
IntoUrl(url) ==
    LET hits == { h \in IdPaths \X Ids : url = BASE_URL \o h[1] \o h[2] }
    IN IF hits = {} THEN url
       ELSE LET h == CHOOSE x \in hits : TRUE
            IN BASE_URL \o h[1] \o EncodePath(IdChars(h[2]))

\* RequestBuilder::send puts the request on the wire: the builder's client
\* adds every default header the request does not set itself. `url` is the
\* string the operation gave, `target` the URL the request goes to.
Execute(req) ==
    [ method |-> req.method, url |-> req.url, target |-> IntoUrl(req.url),
      query |-> req.query,
      body |-> req.body,
      headers |-> [h \in DOMAIN req.headers \cup DOMAIN req.client.default_headers |->
                     IF h \in DOMAIN req.headers THEN req.headers[h]
                     ELSE req.client.default_headers[h]] ]

\* ------------------------------------------------------ request types

\* CreateEmailOptions::new
CreateEmailOptionsNew(from, to, subject) ==
    [ from |-> from, from_name |-> None, to |-> to, subject |-> subject,
      html |-> None, text |-> None, reply_to |-> None, template_slug |-> None,
      template_version |-> None, project_id |-> None,
      substitution_data |-> None, metadata |-> None, attachments |-> None,
      options |-> None ]

\* Option::get_or_insert_with: the value inside, or the default put inside
GetOrInsertWith(option, default) == IF option = None THEN default ELSE option[1]

\* Vec::new and HashMap::new
VecNew == <<>>
HashMapNew == [k \in {} |-> JNull]

\* HashMap::insert: the entry of the key is the new value
HashMapInsert(m, k, v) == [x \in DOMAIN m \cup {k} |-> IF x = k THEN v ELSE m[x]]

\* EmailOptions::default
EmailOptionsDefault ==
    [ click_tracking |-> None, open_tracking |-> None, transactional |-> None ]

\* Attachment::new
AttachmentNew(name, content_type, data) ==
    [ name |-> name, content_type |-> content_type, data |-> data ]

\* the builder methods of CreateEmailOptions
EmailWithFromName(o, name) == [o EXCEPT !.from_name = Some(name)]
EmailWithHtml(o, html) == [o EXCEPT !.html = Some(html)]
EmailWithText(o, text) == [o EXCEPT !.text = Some(text)]
\* with_reply_to as it would be if it set the list to the one address
EmailWithReplyToReplacing(o, address) == [o EXCEPT !.reply_to = Some(<<address>>)]

EmailWithReplyTo(o, address) ==
    [o EXCEPT !.reply_to = Some(Append(GetOrInsertWith(@, VecNew), address))]
EmailWithTemplate(o, slug) == [o EXCEPT !.template_slug = Some(slug)]
EmailWithTemplateVersion(o, version) == [o EXCEPT !.template_version = Some(version)]
EmailWithProjectId(o, project_id) == [o EXCEPT !.project_id = Some(project_id)]
EmailWithSubstitution(o, k, v) ==
    [o EXCEPT !.substitution_data =
                 Some(HashMapInsert(GetOrInsertWith(@, HashMapNew), k, v))]
\* with_substitution_data as it would be if it added the entries of the map
\* to the ones already there
EmailWithSubstitutionDataMerging(o, data) ==
    [o EXCEPT !.substitution_data =
                 Some([x \in DOMAIN GetOrInsertWith(@, HashMapNew) \cup DOMAIN data |->
                         IF x \in DOMAIN data THEN data[x]
                         ELSE GetOrInsertWith(@, HashMapNew)[x]])]

EmailWithSubstitutionData(o, data) == [o EXCEPT !.substitution_data = Some(data)]
EmailWithMetadataEntry(o, k, v) ==
    [o EXCEPT !.metadata = Some(HashMapInsert(GetOrInsertWith(@, HashMapNew), k, v))]
EmailWithMetadata(o, metadata) == [o EXCEPT !.metadata = Some(metadata)]
EmailWithAttachment(o, attachment) ==
    [o EXCEPT !.attachments = Some(Append(GetOrInsertWith(@, VecNew), attachment))]
EmailWithClickTracking(o, enabled) ==
    [o EXCEPT !.options =
                 Some([GetOrInsertWith(@, EmailOptionsDefault)
                          EXCEPT !.click_tracking = Some(enabled)])]
EmailWithOpenTracking(o, enabled) ==
    [o EXCEPT !.options =
                 Some([GetOrInsertWith(@, EmailOptionsDefault)
                          EXCEPT !.open_tracking = Some(enabled)])]
EmailWithTransactional(o, transactional) ==
    [o EXCEPT !.options =
                 Some([GetOrInsertWith(@, EmailOptionsDefault)
                          EXCEPT !.transactional = Some(transactional)])]

EmailRequired == {"from", "to", "subject"}
EmailOptional == {"from_name", "html", "text", "reply_to", "template_slug",
                  "template_version", "project_id", "substitution_data",
                  "metadata", "attachments", "options"}
EmailOptionFlags == {"click_tracking", "open_tracking", "transactional"}

StrListJson(l) == JList([i \in 1..Len(l) |-> JStr(l[i])])

\* #[derive(Serialize)] of Attachment as it would be without the rename of
\* content_type
SerializeAttachmentUnrenamed(a) ==
    JMap([k \in {"name", "content_type", "data"} |-> JStr(a[k])])

\* #[derive(Serialize)] of Attachment: content_type goes under the key `type`
SerializeAttachment(a) ==
    JMap([k \in {"name", "type", "data"} |->
            JStr(IF k = "type" THEN a.content_type ELSE a[k])])

\* #[derive(Serialize)] of EmailOptions: a flag that is None is skipped
SerializeEmailOptions(o) ==
    JMap([k \in {f \in EmailOptionFlags : o[f] # None} |-> JBool(o[k][1])])

\* The JSON of one field of CreateEmailOptions, by the field's type.
EmailFieldJson(k, x) ==
    CASE k \in {"from", "subject"} -> JStr(x)
      [] k = "to" -> StrListJson(x)
      [] k \in {"from_name", "html", "text", "template_slug"} -> JStr(x[1])
      [] k = "reply_to" -> StrListJson(x[1])
      [] k \in {"template_version", "project_id"} -> JNum(x[1])
      [] k \in {"substitution_data", "metadata"} -> JMap(x[1])
      [] k = "attachments" ->
            JList([i \in 1..Len(x[1]) |-> SerializeAttachment(x[1][i])])
      [] k = "options" -> SerializeEmailOptions(x[1])

\* #[derive(Serialize)] of CreateEmailOptions: an optional field that is None
\* is skipped.
SerializeEmail(o) ==
    JMap([k \in EmailRequired \cup {f \in EmailOptional : o[f] # None} |->
            EmailFieldJson(k, o[k])])

\* CreateTemplateOptions::new
CreateTemplateOptionsNew(name) ==
    [ name |-> name, html |-> None, json |-> None, project_id |-> None,
      folder_id |-> None ]

TemplateWithHtml(o, html) == [o EXCEPT !.html = Some(html)]
TemplateWithJson(o, json) == [o EXCEPT !.json = Some(json)]

TemplateOptional == {"html", "json", "project_id", "folder_id"}

\* #[derive(Serialize)] of CreateTemplateOptions
SerializeTemplate(o) ==
    JMap([k \in {"name"} \cup {f \in TemplateOptional : o[f] # None} |->
            CASE k = "name" -> JStr(o.name)
              [] k \in {"html", "json"} -> JStr(o[k][1])
              [] k \in {"project_id", "folder_id"} -> JNum(o[k][1])])

\* #[derive(Serialize)] of CreateDomainRequest
SerializeDomain(domain) == JMap([k \in {"domain"} |-> JStr(domain)])

\* ListEmailsOptions::new and its setters
ListEmailsOptionsNew ==
    [ per_page |-> None, cursor |-> None, recipients |-> None, from |-> None,
      to |-> None ]

\* the setters of ListEmailsOptions
ListEmailsPerPage(o, per_page) == [o EXCEPT !.per_page = Some(per_page)]
ListEmailsCursor(o, cursor) == [o EXCEPT !.cursor = Some(cursor)]
ListEmailsRecipients(o, recipients) == [o EXCEPT !.recipients = Some(recipients)]
ListEmailsFromDate(o, from) == [o EXCEPT !.from = Some(from)]
ListEmailsToDate(o, to) == [o EXCEPT !.to = Some(to)]

\* ListTemplatesOptions::new
ListTemplatesOptionsNew ==
    [ project_id |-> None, per_page |-> None, page |-> None ]

\* the setters of ListTemplatesOptions
ListTemplatesProjectId(o, project_id) == [o EXCEPT !.project_id = Some(project_id)]
ListTemplatesPerPage(o, per_page) == [o EXCEPT !.per_page = Some(per_page)]
ListTemplatesPage(o, page) == [o EXCEPT !.page = Some(page)]

\* the building of the query as it would be if an option that is not set
\* went out as a parameter without a value
QueryAlways(req, name, option, asText) ==
    IF option # None
    THEN Query(req, name, IF asText THEN option[1] ELSE ToString(option[1]))
    ELSE Query(req, name, "")

\* `if let Some(x) = option { request = request.query(&[(name, x)]) }`
QueryIfSet(req, name, option, asText) ==
    IF option # None
    THEN Query(req, name, IF asText THEN option[1] ELSE ToString(option[1]))
    ELSE req

\* ------------------------------------------------------ responses

\* the status codes the server answers with
StatusCodes == {101, 200, 299, 300, 404, 422, 500}

\* is_success as it would be if only the error classes were failures
IsSuccessBelow400(status) == status >= 200 /\ status < 400

\* StatusCode::is_success
IsSuccess(status) == status >= 200 /\ status < 300

\* StatusCode::canonical_reason, as Display of StatusCode prints it
Reason(status) ==
    CASE status = 101 -> "Switching Protocols"
      [] status = 200 -> "OK"
      [] status = 300 -> "Multiple Choices"
      [] status = 404 -> "Not Found"
      [] status = 422 -> "Unprocessable Entity"
      [] status = 500 -> "Internal Server Error"
      [] OTHER -> "<unknown status code>"

\* A body is what the server wrote: nothing, text that is not JSON, a JSON
\* scalar, or a JSON object, of which the model keeps the four keys the client
\* looks at (every other key is an unknown key, which the decoders skip).
BodyOf(form, raw, message, error_code, errors, data) ==
    [ form |-> form, raw |-> raw, message |-> message,
      error_code |-> error_code, errors |-> errors, data |-> data ]

EmptyBody == BodyOf("empty", "", Absent, Absent, Absent, Absent)
TextBody == BodyOf("text", "<html>Bad Gateway</html>", Absent, Absent, Absent, Absent)
ScalarBody == BodyOf("scalar", "42", Absent, Absent, Absent, Absent)
ObjectBody(message, error_code, errors, data) ==
    BodyOf("object", "", message, error_code, errors, data)

ErrFields == {"to", "from"}
ErrTexts == {"is required"}

\* the lists of at most n messages
RECURSIVE MsgLists(_)
MsgLists(n) ==
    IF n = 0 THEN {<<>>}
    ELSE LET shorter == MsgLists(n - 1)
         IN shorter \cup {Append(l, t) : l \in {s \in shorter : Len(s) = n - 1},
                                         t \in ErrTexts}

\* the well-typed `errors` objects: field name to list of strings
GoodErrMaps ==
    UNION { { JMap([f \in d |-> StrListJson(m[f])]) : m \in [d -> MsgLists(MaxMsgs)] }
            : d \in SUBSET ErrFields }

\* `errors` values of the wrong type
BadErrVals ==
    { JStr("oops"),
      JMap([f \in {"to"} |-> JStr("is required")]),
      JMap([f \in {"to"} |-> JList(<<JNum(1)>>)]) }

MsgVals == {Absent, JNum(1), JStr("Invalid")}
CodeVals == {Absent, JNull, JNum(7), JStr("validation_error")}
ErrVals == {Absent, JNull} \cup GoodErrMaps \cup BadErrVals

\* bodies shaped like the error envelope, well-formed or not
ErrorBodies ==
    { ObjectBody(m, c, e, Absent) : m \in MsgVals, c \in CodeVals, e \in ErrVals }

\* ------------------------------------------------------ error taxonomy

\* the variants of Error
Http(kind) == [variant |-> "Http", kind |-> kind]
Api(message, error_code) ==
    [variant |-> "Api", message |-> message, error_code |-> error_code]
Validation(message, error_code, errors) ==
    [variant |-> "Validation", message |-> message, error_code |-> error_code,
     errors |-> errors]
Parse(text) == [variant |-> "Parse", text |-> text]

\* Result<T, Error>
Ok(v) == [ok |-> TRUE, value |-> v]
Err(e) == [ok |-> FALSE, err |-> e]

\* Deserialize of String: a JSON string and nothing else
IsString(v) == JTag(v) = "str"

\* Deserialize of Option<String> under #[serde(default)]: absent, null or a
\* string
IsOptString(v) == JTag(v) \in {"absent", "null", "str"}

OptString(v) == IF JTag(v) = "str" THEN Some(v[2]) ELSE None

\* Deserialize of Vec<String>: a list of JSON strings
IsStringList(v) ==
    /\ JTag(v) = "list"
    /\ \A i \in 1..Len(v[2]) : IsString(v[2][i])

StringList(v) == [i \in 1..Len(v[2]) |-> v[2][i][2]]

\* Deserialize of Option<HashMap<String, Vec<String>>> under #[serde(default)]
IsOptErrMap(v) ==
    \/ JTag(v) \in {"absent", "null"}
    \/ /\ JTag(v) = "map"
       /\ \A f \in DOMAIN v[2] : IsStringList(v[2][f])

\* the errors field as it would be if null were decoded as an empty map
OptErrMapNullIsEmpty(v) ==
    IF JTag(v) = "map"
    THEN Some([f \in DOMAIN v[2] |-> StringList(v[2][f])])
    ELSE IF JTag(v) = "null" THEN Some([f \in {} |-> <<>>])
    ELSE None

\* the Option<HashMap<String, Vec<String>>> decoded from an errors value
OptErrMap(v) ==
    IF JTag(v) = "map"
    THEN Some([f \in DOMAIN v[2] |-> StringList(v[2][f])])
    ELSE None

\* serde_json::from_str::<RawErrorResponse> succeeds
DecodesRawError(body) ==
    /\ body.form = "object"
    /\ IsString(body.message)
    /\ IsOptString(body.error_code)
    /\ IsOptErrMap(body.errors)

\* the RawErrorResponse decoded from a body that decodes
RawErrorResponse(body) ==
    [ message    |-> body.message[2],
      error_code |-> OptString(body.error_code),
      errors     |-> OptErrMap(body.errors) ]

\* into_error as it would be if an empty errors map counted as no errors
IntoErrorEmptyMapIsApi(raw) ==
    IF raw.errors # None /\ DOMAIN raw.errors[1] # {}
    THEN Validation(raw.message, raw.error_code, raw.errors[1])
    ELSE Api(raw.message, raw.error_code)

\* RawErrorResponse::into_error
IntoError(raw) ==
    IF raw.errors # None
    THEN Validation(raw.message, raw.error_code, raw.errors[1])
    ELSE Api(raw.message, raw.error_code)

\* the text as it would be without the status
ParseTextWithoutStatus(status, body) ==
    <<"HTTP error", ": ", body>>

\* format!("HTTP {status}: {body}"), as the pieces of the text in order
ParseText(status, body) ==
    <<"HTTP ", ToString(status), " ", Reason(status), ": ", body>>

\* Config::send on a non-success status, once the body text is there
ClassifyError(status, body) ==
    IF DecodesRawError(body)
    THEN IntoError(RawErrorResponse(body))
    ELSE Parse(ParseText(status, body))

\* ------------------------------------------------------ operations

Ops == { "health", "auth_check",
         "emails.send", "emails.list", "emails.get",
         "domains.list", "domains.create", "domains.get", "domains.delete",
         "templates.list", "templates.create",
         "webhooks.list", "webhooks.get" }

\* the type the operation decodes under `data` of the success envelope
Shape(o) ==
    CASE o = "health" -> "HealthData"
      [] o = "auth_check" -> "AuthCheckData"
      [] o = "emails.send" -> "SendEmailResponse"
      [] o = "emails.list" -> "ListEmailsResponse"
      [] o = "emails.get" -> "GetEmailResponse"
      [] o = "domains.list" -> "ListDomainsData"
      [] o = "domains.create" -> "CreateDomainResponse"
      [] o = "domains.get" -> "DomainDetail"
      [] o = "domains.delete" -> "()"
      [] o = "templates.list" -> "ListTemplatesResponse"
      [] o = "templates.create" -> "CreateTemplateResponse"
      [] o = "webhooks.list" -> "ListWebhooksData"
      [] o = "webhooks.get" -> "Webhook"

\* A `data` value that has every field of the named type; v stands for the
\* field values.
Payload(shape, v) == <<"payload", shape, v>>

\* A `data` value that has every field of the named type and a key the type
\* does not have
PayloadWithUnknown(shape, v) == <<"payload", shape, v, <<"unknown_field">>>>

Payloads == {<<"r1">>, <<"r1", "r2">>}

DataVals(o) ==
    {Absent, JNull, Payload("Unexpected", <<"r1">>)}
        \cup {Payload(Shape(o), v) : v \in Payloads}
        \cup {PayloadWithUnknown(Shape(o), v) : v \in Payloads}

\* bodies shaped like the success envelope of the operation, well-formed or
\* not, with or without a key the operation does not know
SuccessBodies(o) ==
    { ObjectBody(m, Absent, e, d) :
        m \in {Absent, JNull, JStr("ok")},
        e \in {Absent, JMap([f \in {"to"} |-> StrListJson(<<"is required">>)])},
        d \in DataVals(o) }

Bodies(o) == {EmptyBody, TextBody, ScalarBody} \cup ErrorBodies \cup SuccessBodies(o)

\* the decoding as it would be if the `message` that no operation reads, the
\* one of the wrappers, had #[serde(default)]
DecodesSuccessMessageDefaulted(o, body) ==
    /\ body.form = "object"
    /\ o \in {"health", "auth_check"} => IsString(body.message)
    /\ JTag(body.data) = "payload"
    /\ body.data[2] = Shape(o)

\* the decoding as it would be under #[serde(deny_unknown_fields)]
DecodesSuccessDenyUnknown(o, body) ==
    /\ body.form = "object"
    /\ IsString(body.message)
    /\ body.error_code = Absent
    /\ body.errors = Absent
    /\ JTag(body.data) = "payload"
    /\ body.data[2] = Shape(o)
    /\ Len(body.data) = 3

\* serde_json decodes the body as the operation's wrapper {message, data}
DecodesSuccess(o, body) ==
    /\ body.form = "object"
    /\ IsString(body.message)
    /\ JTag(body.data) = "payload"
    /\ body.data[2] = Shape(o)

\* the return value as it would be if every operation returned the wrapper
SuccessValueWholeWrapper(o, body) ==
    <<"response", body.message[2], body.data[3]>>

\* what the operation returns from the decoded wrapper
SuccessValue(o, body) ==
    CASE o \in {"health", "auth_check"} ->
            <<"response", body.message[2], body.data[3]>>
      [] o \in {"domains.list", "webhooks.list"} ->
            <<"Vec", body.data[3]>>
      [] OTHER -> <<Shape(o), body.data[3]>>

\* `response.json::<T>().await?` followed by `Ok(..)`: a body that does not
\* decode is a reqwest::Error, which `?` converts with From<reqwest::Error>
DecodeSuccess(o, body) ==
    IF DecodesSuccess(o, body)
    THEN Ok(SuccessValue(o, body))
    ELSE Err(Http("decode"))

\* ------------------------------------------------------ inputs

NewEmail == CreateEmailOptionsNew("sender@example.com", <<"user@example.com">>, "Hello!")

EmailInputs ==
    { NewEmail,
      EmailWithHtml(NewEmail, "<h1>Welcome!</h1>"),
      EmailWithText(EmailWithHtml(NewEmail, "<h1>Welcome!</h1>"), "Welcome!"),
      EmailWithTemplate(NewEmail, "welcome") }

NewTemplate == CreateTemplateOptionsNew("Welcome Email")

TemplateInputs ==
    { NewTemplate,
      TemplateWithHtml(NewTemplate, "<h1>Hello</h1>"),
      TemplateWithJson(NewTemplate, "{}"),
      TemplateWithJson(TemplateWithHtml(NewTemplate, "<h1>Hello</h1>"), "{}") }

ListEmailsInputs ==
    { ListEmailsOptionsNew,
      [ListEmailsOptionsNew EXCEPT !.per_page = Some(10)],
      [ListEmailsOptionsNew EXCEPT !.cursor = Some("c1"), !.from = Some("2024-01-01")] }

ListTemplatesInputs ==
    { ListTemplatesOptionsNew,
      [ListTemplatesOptionsNew EXCEPT !.per_page = Some(10), !.page = Some(2)] }

\* arguments of the builder methods
Texts == {"Welcome!"}
Addresses == {"reply@example.com", "support@example.com"}
Versions == {2}
ProjectIds == {7}
PerPages == {10, 100}
Pages == {2}
Cursors == {"c1", ""}
Dates == {"2024-01-01"}
Flags == {TRUE, FALSE}
MapKeys == {"name", "plan"}
MapValues == {JStr("Ada")}
Maps == {HashMapNew, [k \in {"plan"} |-> JStr("pro")]}
Attachments == { AttachmentNew("invoice.pdf", "application/pdf", "JVBERi0="),
                 AttachmentNew("logo.png", "image/png", "iVBORw0=") }

\* reqwest::Error of a request that did not get a response
SendFailKinds == {"connect", "request", "timeout"}

\* ------------------------------------------------------ state

VARIABLES
    key,      \* the API key given to Lettr::new
    heap,     \* the configurations the Arcs point at
    lettrs,   \* the client value and its clones
    pc,       \* where the call is: idle, sending, reading, decoding, done,
              \* cancelled
    op,       \* the operation called
    via,      \* the client value it was called through
    wire,     \* the requests put on the wire by the call, in order
    status,   \* the status of the response
    stream,   \* the body stream: none, complete, broken
    body,     \* the body text the client got
    sent,     \* what Config::send returned
    result,   \* what the operation returned
    arg,      \* the argument the operation was called with
    reads,    \* how the body of the response was consumed, in order
    draft,    \* the options value a caller is building, and its type
    called,   \* the builder methods called on it so far
    calls     \* the calls of concurrent callers, one record each

vars == <<key, heap, lettrs, pc, op, via, wire, status, stream, body, sent, result,
          arg, reads, draft, called, calls>>

NoResult == [pending |-> TRUE]
NoBody == BodyOf("none", "", Absent, Absent, Absent, Absent)

Callers == 1..NumCallers

\* the record of a caller that has no call in flight
IdleCall ==
    [ pc |-> "idle", op |-> "none", via |-> 0, arg |-> <<>>, wire |-> <<>>,
      failure |-> "none", status |-> 0, body |-> NoBody, result |-> NoResult ]

\* an options value fresh from the `new` of its type
NewDraft(type, value) == [type |-> type, value |-> value]

Init ==
    /\ key \in ApiKeys
    /\ heap = <<ConfigNew(key)>>
    /\ lettrs = <<LettrNew(1)>>
    /\ pc = "idle"
    /\ op = "none"
    /\ via = 0
    /\ wire = <<>>
    /\ status = 0
    /\ stream = "none"
    /\ body = NoBody
    /\ sent = NoResult
    /\ result = NoResult
    /\ arg = <<>>
    /\ reads = <<>>
    /\ draft = NewDraft("CreateEmailOptions", NewEmail)
    /\ called = <<>>
    /\ calls = [c \in Callers |-> IdleCall]

\* Lettr::clone
Clone(i) ==
    /\ i \in 1..Len(lettrs)
    /\ Len(lettrs) < 1 + MaxClones
    /\ lettrs' = Append(lettrs, LettrClone(lettrs[i]))
    /\ UNCHANGED <<draft, called, calls, arg, reads, key, heap, pc, op, via, wire, status, stream, body, sent, result>>

\* ------------------------------------------------------ the builders

\* A builder method takes the options value and gives it back changed.
Build(type, method, value) ==
    /\ pc = "idle"
    /\ draft.type = type
    /\ Len(called) < MaxBuilderCalls
    /\ draft' = [draft EXCEPT !.value = value]
    /\ called' = Append(called, method)
    /\ UNCHANGED <<calls, arg, reads, key, heap, lettrs, pc, op, via, wire, status,
                   stream, body, sent, result>>

WithFromName(name) ==
    Build("CreateEmailOptions", "with_from_name", EmailWithFromName(draft.value, name))
WithHtml(html) ==
    Build("CreateEmailOptions", "with_html", EmailWithHtml(draft.value, html))
WithText(text) ==
    Build("CreateEmailOptions", "with_text", EmailWithText(draft.value, text))
WithReplyTo(address) ==
    Build("CreateEmailOptions", "with_reply_to", EmailWithReplyTo(draft.value, address))
WithTemplate(slug) ==
    Build("CreateEmailOptions", "with_template", EmailWithTemplate(draft.value, slug))
WithTemplateVersion(version) ==
    Build("CreateEmailOptions", "with_template_version",
          EmailWithTemplateVersion(draft.value, version))
WithProjectId(project_id) ==
    Build("CreateEmailOptions", "with_project_id",
          EmailWithProjectId(draft.value, project_id))
WithSubstitution(k, v) ==
    Build("CreateEmailOptions", "with_substitution",
          EmailWithSubstitution(draft.value, k, v))
WithSubstitutionData(data) ==
    Build("CreateEmailOptions", "with_substitution_data",
          EmailWithSubstitutionData(draft.value, data))
WithMetadataEntry(k, v) ==
    Build("CreateEmailOptions", "with_metadata_entry",
          EmailWithMetadataEntry(draft.value, k, v))
WithMetadata(metadata) ==
    Build("CreateEmailOptions", "with_metadata", EmailWithMetadata(draft.value, metadata))
WithAttachment(attachment) ==
    Build("CreateEmailOptions", "with_attachment",
          EmailWithAttachment(draft.value, attachment))
WithClickTracking(enabled) ==
    Build("CreateEmailOptions", "with_click_tracking",
          EmailWithClickTracking(draft.value, enabled))
WithOpenTracking(enabled) ==
    Build("CreateEmailOptions", "with_open_tracking",
          EmailWithOpenTracking(draft.value, enabled))
WithTransactional(transactional) ==
    Build("CreateEmailOptions", "with_transactional",
          EmailWithTransactional(draft.value, transactional))

PerPage(per_page) ==
    Build("ListEmailsOptions", "per_page", ListEmailsPerPage(draft.value, per_page))
Cursor(cursor) ==
    Build("ListEmailsOptions", "cursor", ListEmailsCursor(draft.value, cursor))
Recipients(recipients) ==
    Build("ListEmailsOptions", "recipients", ListEmailsRecipients(draft.value, recipients))
FromDate(from) ==
    Build("ListEmailsOptions", "from_date", ListEmailsFromDate(draft.value, from))
ToDate(to) ==
    Build("ListEmailsOptions", "to_date", ListEmailsToDate(draft.value, to))

TemplatesProjectId(project_id) ==
    Build("ListTemplatesOptions", "project_id",
          ListTemplatesProjectId(draft.value, project_id))
TemplatesPerPage(per_page) ==
    Build("ListTemplatesOptions", "per_page", ListTemplatesPerPage(draft.value, per_page))
TemplatesPage(page) ==
    Build("ListTemplatesOptions", "page", ListTemplatesPage(draft.value, page))

\* ------------------------------------------------------ the calls

\* An operation up to its first await: the request it built is handed to
\* Config::send, whose `request.send().await` puts it on the wire.
Dispatch(o, i, a, req) ==
    /\ pc = "idle"
    /\ pc' = "sending"
    /\ op' = o
    /\ via' = i
    /\ arg' = a
    /\ wire' = Append(wire, Execute(req))
    /\ UNCHANGED <<draft, called, calls, reads, key, heap, lettrs, status, stream, body, sent, result>>

\* ------------------------------------------------------ the operations

\* the configuration behind an Arc
Deref(arc) == heap[arc]

\* Lettr::health
Health(i) ==
    Dispatch("health", i, <<>>, ConfigBuild(Deref(lettrs[i].config), "GET", "/health"))

\* Lettr::auth_check
AuthCheck(i) ==
    Dispatch("auth_check", i, <<>>, ConfigBuild(Deref(lettrs[i].config), "GET", "/auth/check"))

\* EmailsSvc::send as it would be with a client-side check of the content: an
\* email without html, text and template is rejected before any request
EmailsSendValidated(i, email) ==
    IF email.html = None /\ email.text = None /\ email.template_slug = None
    THEN /\ pc = "idle"
         /\ pc' = "done"
         /\ op' = "emails.send"
         /\ via' = i
         /\ arg' = email
         /\ result' = Err(Validation("html or text is required", None,
                                     [f \in {"html"} |-> <<"is required">>]))
         /\ UNCHANGED <<draft, called, calls, reads, key, heap, lettrs, wire, status, stream, body, sent>>
    ELSE Dispatch("emails.send", i, email,
                  Json(ConfigBuild(Deref(lettrs[i].emails), "POST", "/emails"),
                       SerializeEmail(email)))

\* EmailsSvc::send
EmailsSend(i, email) ==
    Dispatch("emails.send", i, email,
             Json(ConfigBuild(Deref(lettrs[i].emails), "POST", "/emails"),
                  SerializeEmail(email)))

\* EmailsSvc::list
EmailsList(i, options) ==
    LET r0 == ConfigBuild(Deref(lettrs[i].emails), "GET", "/emails")
        r1 == QueryIfSet(r0, "per_page", options.per_page, FALSE)
        r2 == QueryIfSet(r1, "cursor", options.cursor, TRUE)
        r3 == QueryIfSet(r2, "recipients", options.recipients, TRUE)
        r4 == QueryIfSet(r3, "from", options.from, TRUE)
        r5 == QueryIfSet(r4, "to", options.to, TRUE)
    IN Dispatch("emails.list", i, options, r5)

\* EmailsSvc::get
EmailsGet(i, request_id) ==
    Dispatch("emails.get", i, request_id,
             ConfigBuild(Deref(lettrs[i].emails), "GET", "/emails/" \o request_id))

\* DomainsSvc::list
DomainsList(i) ==
    Dispatch("domains.list", i, <<>>, ConfigBuild(Deref(lettrs[i].domains), "GET", "/domains"))

\* DomainsSvc::create
DomainsCreate(i, domain) ==
    Dispatch("domains.create", i, domain,
             Json(ConfigBuild(Deref(lettrs[i].domains), "POST", "/domains"),
                  SerializeDomain(domain)))

\* DomainsSvc::get
DomainsGet(i, domain) ==
    Dispatch("domains.get", i, domain,
             ConfigBuild(Deref(lettrs[i].domains), "GET", "/domains/" \o domain))

\* DomainsSvc::delete as it would be with the method of DomainsSvc::get
DomainsDeleteAsGet(i, domain) ==
    Dispatch("domains.delete", i, domain,
             ConfigBuild(Deref(lettrs[i].domains), "GET", "/domains/" \o domain))

\* DomainsSvc::delete
DomainsDelete(i, domain) ==
    Dispatch("domains.delete", i, domain,
             ConfigBuild(Deref(lettrs[i].domains), "DELETE", "/domains/" \o domain))

\* TemplatesSvc::list
TemplatesList(i, options) ==
    LET r0 == ConfigBuild(Deref(lettrs[i].templates), "GET", "/templates")
        r1 == QueryIfSet(r0, "project_id", options.project_id, FALSE)
        r2 == QueryIfSet(r1, "per_page", options.per_page, FALSE)
        r3 == QueryIfSet(r2, "page", options.page, FALSE)
    IN Dispatch("templates.list", i, options, r3)

\* TemplatesSvc::create
TemplatesCreate(i, options) ==
    Dispatch("templates.create", i, options,
             Json(ConfigBuild(Deref(lettrs[i].templates), "POST", "/templates"),
                  SerializeTemplate(options)))

\* WebhooksSvc::list
WebhooksList(i) ==
    Dispatch("webhooks.list", i, <<>>, ConfigBuild(Deref(lettrs[i].webhooks), "GET", "/webhooks"))

\* WebhooksSvc::get
WebhooksGet(i, webhook_id) ==
    Dispatch("webhooks.get", i, webhook_id,
             ConfigBuild(Deref(lettrs[i].webhooks), "GET", "/webhooks/" \o webhook_id))

\* ------------------------------------------------------ Config::send

\* `?` as it would be if the operation turned every error into a Parse error
\* of its text
PropagateAsParse(r) == Err(Parse(<<r.err.variant>>))

\* `?` on an Err: the error is returned to the caller as it is
Propagate(r) == Err(r.err)

\* String::default(), the body that `unwrap_or_default` puts in the place of
\* a body that could not be read
UnwrapOrDefault == EmptyBody

\* A failed exchange as it would be if the client fell back to another base
\* URL after it
SendFailsWithFallbackUrl(kind) ==
    /\ pc = "sending"
    /\ sent' = Err(Http(kind))
    /\ result' = Propagate(sent')
    /\ pc' = "done"
    /\ heap' = [heap EXCEPT ![1].base_url = "https://fallback.lettr.com/api"]
    /\ UNCHANGED <<draft, called, calls, arg, reads, key, lettrs, op, via, wire, status,
                   stream, body>>

\* `request.send().await?` fails: the exchange did not produce a response.
\* Config::send returns the transport error and the operation returns it.
SendFails(kind) ==
    /\ pc = "sending"
    /\ sent' = Err(Http(kind))
    /\ result' = Propagate(sent')
    /\ pc' = "done"
    /\ UNCHANGED <<draft, called, calls, arg, reads, key, heap, lettrs, op, via, wire, status, stream, body>>

\* The arrival of a response as it would be if delete decoded the body as the
\* other operations do
RecvResponseDeleteDecodes(st) ==
    /\ pc = "sending"
    /\ status' = st
    /\ IF IsSuccess(st)
       THEN /\ sent' = Ok([status |-> st])
            /\ result' = result
            /\ pc' = "decoding"
       ELSE /\ sent' = sent
            /\ result' = result
            /\ pc' = "reading"
    /\ UNCHANGED <<draft, called, calls, arg, reads, key, heap, lettrs, op, via, wire, stream, body>>

\* `request.send().await?` yields a response: on a success status Config::send
\* returns it, and the operation goes on to read the body as JSON (delete
\* returns at once); otherwise Config::send goes on to read the body as text.
RecvResponse(st) ==
    /\ pc = "sending"
    /\ status' = st
    /\ IF IsSuccess(st)
       THEN /\ sent' = Ok([status |-> st])
            /\ IF op = "domains.delete"
               THEN result' = Ok(<<"()">>) /\ pc' = "done"
               ELSE result' = result /\ pc' = "decoding"
       ELSE /\ sent' = sent
            /\ result' = result
            /\ pc' = "reading"
    /\ UNCHANGED <<draft, called, calls, arg, reads, key, heap, lettrs, op, via, wire, stream, body>>

\* The reading of an error body as it would be if the body were read a second
\* time to parse it
ReadTextTwice(b) ==
    /\ pc = "reading"
    /\ stream' = "complete"
    /\ body' = b
    /\ reads' = Append(Append(reads, "text"), "text")
    /\ sent' = Err(ClassifyError(status, b))
    /\ result' = Propagate(sent')
    /\ pc' = "done"
    /\ UNCHANGED <<draft, called, calls, arg, key, heap, lettrs, op, via, wire, status>>

\* `response.text().await` yields the body: the error is classified.
ReadText(b) ==
    /\ pc = "reading"
    /\ stream' = "complete"
    /\ body' = b
    /\ reads' = Append(reads, "text")
    /\ sent' = Err(ClassifyError(status, b))
    /\ result' = Propagate(sent')
    /\ pc' = "done"
    /\ UNCHANGED <<draft, called, calls, arg, key, heap, lettrs, op, via, wire, status>>

\* `response.text().await` fails: `unwrap_or_default` makes the body empty.
ReadTextFails ==
    /\ pc = "reading"
    /\ stream' = "broken"
    /\ body' = UnwrapOrDefault
    /\ reads' = Append(reads, "text")
    /\ sent' = Err(ClassifyError(status, UnwrapOrDefault))
    /\ result' = Propagate(sent')
    /\ pc' = "done"
    /\ UNCHANGED <<draft, called, calls, arg, key, heap, lettrs, op, via, wire, status>>

\* `response.json::<T>().await?` has the whole body and decodes it.
DecodeJson(b) ==
    /\ pc = "decoding"
    /\ stream' = "complete"
    /\ body' = b
    /\ reads' = Append(reads, "json")
    /\ result' = DecodeSuccess(op, b)
    /\ pc' = "done"
    /\ UNCHANGED <<draft, called, calls, arg, key, heap, lettrs, op, via, wire, status, sent>>

\* `response.json::<T>().await?` fails to read the body.
DecodeJsonFails ==
    /\ pc = "decoding"
    /\ stream' = "broken"
    /\ reads' = Append(reads, "json")
    /\ result' = Err(Http("body"))
    /\ pc' = "done"
    /\ UNCHANGED <<draft, called, calls, arg, key, heap, lettrs, op, via, wire, status, body, sent>>

\* The caller drops the future of the call at one of its await points: the
\* exchange is abandoned and the call has no result.
Cancel ==
    /\ pc \in {"sending", "reading", "decoding"}
    /\ pc' = "cancelled"
    /\ UNCHANGED <<draft, called, calls, arg, reads, key, heap, lettrs, op, via, wire,
                   status, stream, body, sent, result>>

\* The caller has the result, or has dropped the call; the next call starts
\* afresh.
Return ==
    /\ pc \in {"done", "cancelled"}
    /\ pc' = "idle"
    /\ op' = "none"
    /\ via' = 0
    /\ arg' = <<>>
    /\ reads' = <<>>
    /\ wire' = <<>>
    /\ status' = 0
    /\ stream' = "none"
    /\ body' = NoBody
    /\ sent' = NoResult
    /\ result' = NoResult
    /\ UNCHANGED <<draft, called, calls, key, heap, lettrs>>

Next ==
    \/ \E i \in 1..Len(lettrs) : Clone(i)
    \/ \E i \in 1..Len(lettrs) : Health(i)
    \/ \E i \in 1..Len(lettrs) : AuthCheck(i)
    \/ \E i \in 1..Len(lettrs), email \in EmailInputs : EmailsSend(i, email)
    \/ \E i \in 1..Len(lettrs), options \in ListEmailsInputs : EmailsList(i, options)
    \/ \E i \in 1..Len(lettrs), id \in Ids : EmailsGet(i, id)
    \/ \E i \in 1..Len(lettrs) : DomainsList(i)
    \/ \E i \in 1..Len(lettrs), id \in Ids : DomainsCreate(i, id)
    \/ \E i \in 1..Len(lettrs), id \in Ids : DomainsGet(i, id)
    \/ \E i \in 1..Len(lettrs), id \in Ids : DomainsDelete(i, id)
    \/ \E i \in 1..Len(lettrs), options \in ListTemplatesInputs : TemplatesList(i, options)
    \/ \E i \in 1..Len(lettrs), options \in TemplateInputs : TemplatesCreate(i, options)
    \/ \E i \in 1..Len(lettrs) : WebhooksList(i)
    \/ \E i \in 1..Len(lettrs), id \in Ids : WebhooksGet(i, id)
    \/ \E kind \in SendFailKinds : SendFails(kind)
    \/ \E st \in StatusCodes : RecvResponse(st)
    \/ pc = "reading" /\ \E b \in Bodies(op) : ReadText(b)
    \/ ReadTextFails
    \/ pc = "decoding" /\ \E b \in Bodies(op) : DecodeJson(b)
    \/ DecodeJsonFails
    \/ Cancel
    \/ Return

Spec == Init /\ [][Next]_vars

\* ------------------------------------------------------ concurrent calls

\* Several callers use the client and its clones at the same time. Each call
\* is a future with its own request, response and result; the calls share
\* the configuration behind the Arc and nothing else. The steps of the calls
\* interleave in any order.

\* what the server answers to the concurrent calls
ConcStatuses == {200, 404}
ConcBodies(o) ==
    { ObjectBody(JStr("Invalid"), Absent, Absent, Absent),
      ObjectBody(JStr("ok"), Absent, Absent, Payload(Shape(o), <<"r1">>)) }

\* the transport failure of the concurrent calls
ConcFailKinds == {"connect"}

\* the client as Lettr::new made it, and no call in flight
InitConc ==
    /\ key = "key-one"
    /\ heap = <<ConfigNew(key)>>
    /\ lettrs = <<LettrNew(1)>>
    /\ pc = "idle"
    /\ op = "none"
    /\ via = 0
    /\ wire = <<>>
    /\ status = 0
    /\ stream = "none"
    /\ body = NoBody
    /\ sent = NoResult
    /\ result = NoResult
    /\ arg = <<>>
    /\ reads = <<>>
    /\ draft = NewDraft("CreateEmailOptions", NewEmail)
    /\ called = <<>>
    /\ calls = [c \in Callers |-> IdleCall]

\* the step of one call: its record changes and nothing else does
SetCall(c, call) ==
    /\ calls' = [calls EXCEPT ![c] = call]
    /\ UNCHANGED <<draft, called, arg, reads, key, heap, lettrs, pc, op, via, wire,
                   status, stream, body, sent, result>>

\* an operation up to its first await, in the call of caller c
ConcDispatch(c, o, i, a, req) ==
    /\ calls[c].pc = "idle"
    /\ SetCall(c, [IdleCall EXCEPT !.pc = "sending", !.op = o, !.via = i, !.arg = a,
                                   !.wire = <<Execute(req)>>])

\* EmailsSvc::get called by caller c
ConcEmailsGet(c, i, request_id) ==
    ConcDispatch(c, "emails.get", i, request_id,
                 ConfigBuild(Deref(lettrs[i].emails), "GET", "/emails/" \o request_id))

\* DomainsSvc::delete called by caller c
ConcDomainsDelete(c, i, domain) ==
    ConcDispatch(c, "domains.delete", i, domain,
                 ConfigBuild(Deref(lettrs[i].domains), "DELETE", "/domains/" \o domain))

\* `request.send().await?` fails in the call of caller c
ConcSendFails(c, kind) ==
    /\ calls[c].pc = "sending"
    /\ SetCall(c, [calls[c] EXCEPT !.pc = "done", !.failure = kind,
                                   !.result = Propagate(Err(Http(kind)))])

\* The arrival of a response as it would be if the client kept the response
\* in one slot that every call in flight reads
ConcRecvResponseSharedSlot(c, st) ==
    /\ calls[c].pc = "sending"
    /\ calls' = [d \in Callers |->
                   IF calls[d].pc # "sending" THEN calls[d]
                   ELSE IF IsSuccess(st)
                        THEN IF calls[d].op = "domains.delete"
                             THEN [calls[d] EXCEPT !.pc = "done", !.status = st,
                                                   !.result = Ok(<<"()">>)]
                             ELSE [calls[d] EXCEPT !.pc = "decoding", !.status = st]
                        ELSE [calls[d] EXCEPT !.pc = "reading", !.status = st]]
    /\ UNCHANGED <<draft, called, arg, reads, key, heap, lettrs, pc, op, via, wire,
                   status, stream, body, sent, result>>

\* `request.send().await?` yields a response in the call of caller c
ConcRecvResponse(c, st) ==
    /\ calls[c].pc = "sending"
    /\ SetCall(c, IF IsSuccess(st)
                  THEN IF calls[c].op = "domains.delete"
                       THEN [calls[c] EXCEPT !.pc = "done", !.status = st,
                                             !.result = Ok(<<"()">>)]
                       ELSE [calls[c] EXCEPT !.pc = "decoding", !.status = st]
                  ELSE [calls[c] EXCEPT !.pc = "reading", !.status = st])

\* `response.text().await` yields the body in the call of caller c
ConcReadText(c, b) ==
    /\ calls[c].pc = "reading"
    /\ SetCall(c, [calls[c] EXCEPT
                      !.pc = "done", !.body = b,
                      !.result = Propagate(Err(ClassifyError(calls[c].status, b)))])

\* `response.json::<T>().await?` decodes the body in the call of caller c
ConcDecodeJson(c, b) ==
    /\ calls[c].pc = "decoding"
    /\ SetCall(c, [calls[c] EXCEPT !.pc = "done", !.body = b,
                                   !.result = DecodeSuccess(calls[c].op, b)])

\* caller c has the result of its call
ConcReturn(c) ==
    /\ calls[c].pc = "done"
    /\ SetCall(c, IdleCall)

NextConc ==
    \/ \E i \in 1..Len(lettrs) : Clone(i)
    \/ \E c \in Callers, i \in 1..Len(lettrs), id \in Ids : ConcEmailsGet(c, i, id)
    \/ \E c \in Callers, i \in 1..Len(lettrs) : ConcDomainsDelete(c, i, "example.com")
    \/ \E c \in Callers, kind \in ConcFailKinds : ConcSendFails(c, kind)
    \/ \E c \in Callers, st \in ConcStatuses : ConcRecvResponse(c, st)
    \/ \E c \in Callers : calls[c].pc = "reading"
                            /\ \E b \in ConcBodies(calls[c].op) : ConcReadText(c, b)
    \/ \E c \in Callers : calls[c].pc = "decoding"
                            /\ \E b \in ConcBodies(calls[c].op) : ConcDecodeJson(c, b)
    \/ \E c \in Callers : ConcReturn(c)

SpecConc == InitConc /\ [][NextConc]_vars

\* ------------------------------------------------------ construction

\* the keys a caller may give to Lettr::new, well-formed or not, and the
\* bytes of each as UTF-8
NewKeys == { "key-one", "key with tab", "key with newline", "key with DEL",
            "key with e-acute", "key with euro sign" }

KeyBytes(k) ==
    CASE k = "key-one" -> <<107, 101, 121, 45, 111, 110, 101>>
      [] k = "key with tab" -> <<107, 9, 121>>
      [] k = "key with newline" -> <<107, 101, 121, 10>>
      [] k = "key with DEL" -> <<107, 127>>
      [] k = "key with e-acute" -> <<99, 108, 195, 169>>
      [] k = "key with euro sign" -> <<226, 130, 172, 107>>

\* the test HeaderValue::from_str makes of each byte of the value: control
\* bytes other than the tab are refused, every byte from 128 up is taken as
\* an opaque octet
IsValidHeaderValueByte(b) == (b >= 32 /\ b # 127) \/ b = 9

\* HeaderValue::from_str(&format!("Bearer {api_key}")) is Ok: the bytes of
\* "Bearer " are valid, so the bytes of the key decide
HeaderValueFromStrIsOk(k) ==
    \A n \in 1..Len(KeyBytes(k)) : IsValidHeaderValueByte(KeyBytes(k)[n])

\* before Lettr::new: there is no configuration and no client value
InitNew ==
    /\ key \in NewKeys
    /\ heap = <<>>
    /\ lettrs = <<>>
    /\ pc = "new"
    /\ op = "none"
    /\ via = 0
    /\ wire = <<>>
    /\ status = 0
    /\ stream = "none"
    /\ body = NoBody
    /\ sent = NoResult
    /\ result = NoResult
    /\ arg = <<>>
    /\ reads = <<>>
    /\ draft = NewDraft("CreateEmailOptions", NewEmail)
    /\ called = <<>>
    /\ calls = [c \in Callers |-> IdleCall]

\* Lettr::new: Config::new panics on the first `expect` when the header value
\* is refused and on the second when the HTTP client cannot be built;
\* otherwise the client value is made around one shared configuration.
New(client_built) ==
    /\ pc = "new"
    /\ IF HeaderValueFromStrIsOk(key) /\ client_built
       THEN /\ heap' = <<ConfigNew(key)>>
            /\ lettrs' = <<LettrNew(1)>>
            /\ pc' = "idle"
       ELSE /\ pc' = "panicked"
            /\ UNCHANGED <<heap, lettrs>>
    /\ UNCHANGED <<draft, called, calls, arg, reads, key, op, via, wire, status,
                   stream, body, sent, result>>

NextNew ==
    \/ \E client_built \in BOOLEAN : New(client_built)
    \/ \E i \in 1..Len(lettrs) : Clone(i)
    \/ \E i \in 1..Len(lettrs) : Health(i)
    \/ \E i \in 1..Len(lettrs) : AuthCheck(i)
    \/ \E i \in 1..Len(lettrs), id \in Ids : EmailsGet(i, id)
    \/ \E i \in 1..Len(lettrs) : DomainsList(i)
    \/ \E i \in 1..Len(lettrs), id \in Ids : DomainsGet(i, id)
    \/ \E i \in 1..Len(lettrs), id \in Ids : DomainsDelete(i, id)
    \/ \E i \in 1..Len(lettrs) : WebhooksList(i)
    \/ \E kind \in SendFailKinds : SendFails(kind)
    \/ Cancel
    \/ Return

SpecNew == InitNew /\ [][NextNew]_vars

\* ------------------------------------------------------ building requests

\* A caller makes an options value, calls builder methods on it and passes
\* it to the operation that takes it.
InitBuild ==
    /\ key = "key-one"
    /\ heap = <<ConfigNew(key)>>
    /\ lettrs = <<LettrNew(1)>>
    /\ pc = "idle"
    /\ op = "none"
    /\ via = 0
    /\ wire = <<>>
    /\ status = 0
    /\ stream = "none"
    /\ body = NoBody
    /\ sent = NoResult
    /\ result = NoResult
    /\ arg = <<>>
    /\ reads = <<>>
    /\ draft \in { NewDraft("CreateEmailOptions", NewEmail),
                    NewDraft("ListEmailsOptions", ListEmailsOptionsNew),
                    NewDraft("ListTemplatesOptions", ListTemplatesOptionsNew) }
    /\ called = <<>>
    /\ calls = [c \in Callers |-> IdleCall]

NextBuild ==
    \/ \E name \in Texts : WithFromName(name)
    \/ \E html \in Texts : WithHtml(html)
    \/ \E text \in Texts : WithText(text)
    \/ \E address \in Addresses : WithReplyTo(address)
    \/ \E slug \in Texts : WithTemplate(slug)
    \/ \E version \in Versions : WithTemplateVersion(version)
    \/ \E project_id \in ProjectIds : WithProjectId(project_id)
    \/ \E k \in MapKeys, v \in MapValues : WithSubstitution(k, v)
    \/ \E data \in Maps : WithSubstitutionData(data)
    \/ \E k \in MapKeys, v \in MapValues : WithMetadataEntry(k, v)
    \/ \E metadata \in Maps : WithMetadata(metadata)
    \/ \E attachment \in Attachments : WithAttachment(attachment)
    \/ \E enabled \in Flags : WithClickTracking(enabled)
    \/ \E enabled \in Flags : WithOpenTracking(enabled)
    \/ \E transactional \in Flags : WithTransactional(transactional)
    \/ \E per_page \in PerPages : PerPage(per_page)
    \/ \E cursor \in Cursors : Cursor(cursor)
    \/ \E recipients \in Addresses : Recipients(recipients)
    \/ \E from \in Dates : FromDate(from)
    \/ \E to \in Dates : ToDate(to)
    \/ \E project_id \in ProjectIds : TemplatesProjectId(project_id)
    \/ \E per_page \in PerPages : TemplatesPerPage(per_page)
    \/ \E page \in Pages : TemplatesPage(page)
    \/ draft.type = "CreateEmailOptions" /\ EmailsSend(1, draft.value)
    \/ draft.type = "ListEmailsOptions" /\ EmailsList(1, draft.value)
    \/ draft.type = "ListTemplatesOptions" /\ TemplatesList(1, draft.value)
    \/ \E kind \in ConcFailKinds : SendFails(kind)
    \/ Cancel
    \/ Return

SpecBuild == InitBuild /\ [][NextBuild]_vars

\* ------------------------------------------------------ properties

\* the call is over and the client read the whole body of a non-success
\* response
ErrorBodyRead == pc = "done" /\ stream = "complete" /\ ~(status \in 200..299)

\* C1: a non-success response whose body decodes as the error envelope with a
\* non-null `errors` map (the empty map included) makes Config::send return
\* Error::Validation with the message, the error_code and the errors of the
\* body, never Api or Parse.
C1_ValidationFromErrorsMap ==
    (ErrorBodyRead /\ DecodesRawError(body) /\ JTag(body.errors) = "map") =>
        /\ ~sent.ok
        /\ sent.err.variant = "Validation"
        /\ sent.err.message = body.message[2]
        /\ sent.err.error_code =
             (IF JTag(body.error_code) = "str" THEN <<body.error_code[2]>> ELSE <<>>)
        /\ DOMAIN sent.err.errors = DOMAIN body.errors[2]
        /\ \A f \in DOMAIN body.errors[2] :
             /\ Len(sent.err.errors[f]) = Len(body.errors[2][f][2])
             /\ \A n \in 1..Len(sent.err.errors[f]) :
                  <<"str", sent.err.errors[f][n]>> = body.errors[2][f][2][n]

\* C1 witness: a 422 whose body has `errors: {}` was classified as Validation
C1_Witness ==
    /\ ErrorBodyRead
    /\ status = 422
    /\ DecodesRawError(body)
    /\ JTag(body.errors) = "map"
    /\ DOMAIN body.errors[2] = {}
    /\ sent.err.variant = "Validation"

\* C2: a non-success response whose body decodes as the error envelope with
\* `errors` absent or null makes Config::send return Error::Api with the
\* message and the error_code of the body (None when absent), never
\* Validation or Parse.
C2_ApiWithoutErrors ==
    (ErrorBodyRead /\ DecodesRawError(body) /\ JTag(body.errors) \in {"absent", "null"}) =>
        /\ ~sent.ok
        /\ sent.err.variant = "Api"
        /\ DOMAIN sent.err = {"variant", "message", "error_code"}
        /\ sent.err.message = body.message[2]
        /\ sent.err.error_code =
             (IF JTag(body.error_code) = "str" THEN <<body.error_code[2]>> ELSE <<>>)

\* C2 witness: a 404 whose body has `errors: null` and no error_code was
\* classified as Api
C2_Witness ==
    /\ ErrorBodyRead
    /\ status = 404
    /\ DecodesRawError(body)
    /\ body.errors = JNull
    /\ body.error_code = Absent
    /\ sent.err.variant = "Api"

\* C3: a non-success response whose body does not decode as the error envelope
\* makes Config::send return Error::Parse whose text is "HTTP ", the status,
\* ": " and the body as it was read, never Api or Validation.
C3_ParseKeepsStatusAndBody ==
    (ErrorBodyRead /\ ~DecodesRawError(body)) =>
        /\ ~sent.ok
        /\ sent.err.variant = "Parse"
        /\ Len(sent.err.text) = 6
        /\ sent.err.text[1] = "HTTP "
        /\ sent.err.text[2] = ToString(status)
        /\ sent.err.text[3] = " "
        /\ sent.err.text[4] = Reason(status)
        /\ sent.err.text[5] = ": "
        /\ sent.err.text[6] = body

\* C3 witness: a 500 with a body that is not JSON became a Parse error
C3_Witness ==
    /\ ErrorBodyRead
    /\ status = 500
    /\ body = TextBody
    /\ sent.err.variant = "Parse"

\* C4: Config::send returns Ok exactly when a response arrived and its status
\* is in 200..299; with any other status it returns an Err, and no operation
\* returns a success value for such a response.
C4_OkIffSuccessStatus ==
    /\ (pc = "done") => (sent # NoResult)
    /\ (status \in 200..299) => (sent # NoResult)
    /\ (sent # NoResult) => (sent.ok <=> status \in 200..299)
    /\ (result # NoResult /\ result.ok) => status \in 200..299

\* C4 witness: a call ended in Ok on status 299, and Config::send returned Ok
C4_Witness ==
    /\ pc = "done"
    /\ status = 299
    /\ sent.ok
    /\ result.ok

\* C5: when the body of a 2xx response does not decode into the success
\* envelope of the operation, the operation returns Error::Parse.
C5_DecodeFailureIsParse ==
    (/\ pc = "done"
     /\ status \in 200..299
     /\ stream = "complete"
     /\ op # "domains.delete"
     /\ ~DecodesSuccess(op, body)) =>
        (~result.ok /\ result.err.variant = "Parse")

\* C6: when the exchange fails at any stage (before the response, or while
\* the body is read), the operation returns Error::Http.
C6_TransportFailureIsHttp ==
    (pc = "done" /\ (sent = Err(Http("connect")) \/ sent = Err(Http("request"))
                     \/ sent = Err(Http("timeout")) \/ stream = "broken")) =>
        (~result.ok /\ result.err.variant = "Http")

\* C8: every request on the wire, of whatever operation and through the
\* client or a clone, carries the three default headers fixed by Lettr::new
\* with the key it was given, and no other value for them.
C8_DefaultHeadersOnEveryRequest ==
    \A n \in 1..Len(wire) :
        /\ DOMAIN wire[n].headers = {"authorization", "content-type", "user-agent"}
        /\ wire[n].headers["authorization"] = "Bearer " \o key
        /\ wire[n].headers["content-type"] = "application/json"
        /\ wire[n].headers["user-agent"] = "lettr-rust/" \o CARGO_PKG_VERSION

\* C8 witness: a request with a JSON body, sent through a clone, is on the wire
C8_Witness ==
    /\ pc = "sending"
    /\ op = "emails.send"
    /\ via = 2
    /\ Len(wire) = 1
    /\ wire[1].headers["authorization"] = "Bearer key-two"

\* C9: each operation sends the method and the path of the endpoint table,
\* and only the POST operations attach a JSON body.
C9_EndpointTable ==
    (pc # "idle") =>
        LET r == wire[1]
            at(m, path) == r.method = m /\ r.url = "https://app.lettr.com/api" \o path
            atId(m, prefix) ==
                r.method = m /\ \E id \in Ids :
                    r.url = "https://app.lettr.com/api" \o prefix \o id
        IN /\ CASE op = "health" -> at("GET", "/health")
                [] op = "auth_check" -> at("GET", "/auth/check")
                [] op = "emails.send" -> at("POST", "/emails")
                [] op = "emails.list" -> at("GET", "/emails")
                [] op = "emails.get" -> atId("GET", "/emails/")
                [] op = "domains.list" -> at("GET", "/domains")
                [] op = "domains.create" -> at("POST", "/domains")
                [] op = "domains.get" -> atId("GET", "/domains/")
                [] op = "domains.delete" -> atId("DELETE", "/domains/")
                [] op = "templates.list" -> at("GET", "/templates")
                [] op = "templates.create" -> at("POST", "/templates")
                [] op = "webhooks.list" -> at("GET", "/webhooks")
                [] op = "webhooks.get" -> atId("GET", "/webhooks/")
                [] OTHER -> FALSE
           /\ (r.body[1] = "json") <=> (r.method = "POST")
           /\ (r.body[1] = "none") <=> (r.method # "POST")

\* C9 witness: domains.delete has its DELETE request on the wire
C9_Witness ==
    /\ pc = "sending"
    /\ op = "domains.delete"
    /\ wire[1].method = "DELETE"
    /\ wire[1].url = "https://app.lettr.com/api/domains/example.com"

\* C10: a call puts exactly one request on the wire, whatever its arguments
\* and however the exchange ends, and is over with exactly one result.
C10_OneRequestOneResult ==
    /\ (pc = "idle") => (Len(wire) = 0 /\ result = NoResult)
    /\ (pc # "idle") => Len(wire) = 1
    /\ (pc \in {"sending", "reading", "decoding"}) => result = NoResult
    /\ (pc = "done") => (result # NoResult /\ DOMAIN result \in {{"ok", "value"}, {"ok", "err"}})

\* C10 witness: emails.send without html, text or template went on the wire
\* once and the call is over
C10_Witness ==
    /\ pc = "done"
    /\ op = "emails.send"
    /\ Len(wire) = 1
    /\ DOMAIN wire[1].body[2][2] = {"from", "to", "subject"}
    /\ ~result.ok

\* C11: when Config::send returns an error, the operation is over and returns
\* that very error, the same variant with the same fields, and it has not
\* tried to decode the body as a success.
C11_ErrorPropagatedUnchanged ==
    (sent # NoResult /\ ~sent.ok) =>
        /\ pc = "done"
        /\ result = sent
        /\ \A n \in 1..Len(reads) : reads[n] # "json"

\* C11 witness: emails.list got a 404 with an error envelope; Config::send
\* and the operation returned the same Api error
C11_Witness ==
    /\ pc = "done"
    /\ op = "emails.list"
    /\ status = 404
    /\ ~sent.ok
    /\ sent.err.variant = "Api"
    /\ result = sent

\* C12: no step of any call, whether the call succeeds, fails or is dropped
\* in flight, changes the shared configuration or the Arcs that point at it.
C12_ConfigurationNeverChanges ==
    [][ /\ heap' = heap
        /\ \A i \in 1..Len(lettrs) : lettrs'[i] = lettrs[i] ]_vars

\* C12 witness: a call was dropped while its body was being read, and the
\* configuration is the one Lettr::new made
C12_Witness ==
    /\ pc = "cancelled"
    /\ status = 500
    /\ Len(heap) = 1
    /\ heap[1].base_url = "https://app.lettr.com/api"
    /\ heap[1].http.default_headers["authorization"] = "Bearer " \o key

\* the call is over with a success status and a body, read in full, that is
\* the wrapper {message, data} of the operation
EnvelopeDecoded ==
    /\ pc = "done"
    /\ status \in 200..299
    /\ op # "domains.delete"
    /\ stream = "complete"
    /\ body.form = "object"
    /\ JTag(body.message) = "str"
    /\ JTag(body.data) = "payload"
    /\ body.data[2] = Shape(op)

WithoutUnknown(b) ==
    [b EXCEPT !.error_code = Absent, !.errors = Absent,
              !.data = <<b.data[1], b.data[2], b.data[3]>>]

\* C17: a success body that has every field of the operation's type decodes,
\* and to the value it decodes to without its unknown keys, whether they are
\* in the wrapper or in the data.
C17_UnknownFieldsIgnored ==
    EnvelopeDecoded =>
        /\ result.ok
        /\ result = DecodeSuccess(op, WithoutUnknown(body))

\* C17 witness: domains.create succeeded on a body with an unknown key in the
\* wrapper and another in the data
C17_Witness ==
    /\ EnvelopeDecoded
    /\ op = "domains.create"
    /\ body.errors # Absent
    /\ Len(body.data) = 4
    /\ result = Ok(<<"CreateDomainResponse", <<"r1", "r2">>>>)

\* C18: domains.delete returns Ok(()) on every success status with the body
\* never read, and the classified error on every other status.
C18_DeleteIgnoresBody ==
    op = "domains.delete" =>
        /\ pc # "decoding"
        /\ (pc = "done" /\ status \in 200..299) =>
              /\ result = Ok(<<"()">>)
              /\ reads = <<>>
              /\ stream = "none"
              /\ body = NoBody
        /\ (pc = "done" /\ status # 0 /\ ~(status \in 200..299)) =>
              /\ ~result.ok
              /\ result = Err(ClassifyError(status, body))

\* C18 witness: domains.delete answered with 299 returned Ok(())
C18_Witness ==
    /\ pc = "done"
    /\ op = "domains.delete"
    /\ status = 299
    /\ result = Ok(<<"()">>)

\* C20 as stated: a call that got a response has consumed the body exactly
\* once when it is over.
C20_BodyConsumedExactlyOnce ==
    (pc = "done" /\ status # 0) => Len(reads) = 1

\* C20 amended: the body is never consumed twice; a call that is over has
\* decoded it once as JSON on a success status, read it once as text on any
\* other status, and domains.delete on a success status has not consumed it.
C20_BodyConsumedAtMostOnce ==
    /\ Len(reads) <= 1
    /\ (pc = "done" /\ status # 0) =>
          reads = IF status \in 200..299
                  THEN (IF op = "domains.delete" THEN <<>> ELSE <<"json">>)
                  ELSE <<"text">>

\* C20 witness: domains.delete is over on a 200 whose body nobody consumed
C20_Witness ==
    /\ pc = "done"
    /\ op = "domains.delete"
    /\ status = 200
    /\ result.ok
    /\ reads = <<>>

\* the builder method was called on the options value
Called(method) == \E n \in 1..Len(called) : called[n] = method

\* the decimal digits of a natural number
DecimalDigit(d) ==
    CASE d = 0 -> "0" [] d = 1 -> "1" [] d = 2 -> "2" [] d = 3 -> "3"
      [] d = 4 -> "4" [] d = 5 -> "5" [] d = 6 -> "6" [] d = 7 -> "7"
      [] d = 8 -> "8" [] d = 9 -> "9"

RECURSIVE Decimal(_)
Decimal(n) ==
    IF n < 10 THEN DecimalDigit(n)
    ELSE Decimal(n \div 10) \o DecimalDigit(n % 10)

\* the documented query parameters of the two list operations, and the
\* setter of each
ListParams(o) ==
    IF o = "emails.list"
    THEN {"per_page", "cursor", "recipients", "from", "to"}
    ELSE {"project_id", "per_page", "page"}

SetterOf(o, name) ==
    CASE o = "emails.list" /\ name = "from" -> "from_date"
      [] o = "emails.list" /\ name = "to" -> "to_date"
      [] OTHER -> name

\* C14: the request of emails.list and templates.list has a query parameter
\* for an option exactly when a setter set the option; the parameter is there
\* once, under the documented name, with the string as it is or the number
\* in decimal; no other parameter is there.
C14_QueryParamsIffOptionSet ==
    (pc = "sending" /\ op \in {"emails.list", "templates.list"}) =>
        LET q == wire[1].query IN
        /\ arg = draft.value
        /\ \A n \in 1..Len(q) : q[n][1] \in ListParams(op)
        /\ \A name \in ListParams(op) :
              LET at == {n \in 1..Len(q) : q[n][1] = name} IN
              IF Called(SetterOf(op, name))
              THEN /\ arg[name] # None
                   /\ Cardinality(at) = 1
                   /\ \A n \in at :
                        q[n][2] = IF name \in {"per_page", "page", "project_id"}
                                  THEN Decimal(arg[name][1])
                                  ELSE arg[name][1]
              ELSE /\ arg[name] = None
                   /\ at = {}

\* C14 witness: emails.list with per_page set twice and an empty cursor sends
\* per_page once, with the last value, and the cursor without a value
C14_Witness ==
    /\ pc = "sending"
    /\ op = "emails.list"
    /\ called = <<"per_page", "cursor", "per_page">>
    /\ wire[1].query = <<<<"per_page", "100">>, <<"cursor", "">>>>

\* the builder methods that set an optional field of CreateEmailOptions
EmailSetters(f) ==
    CASE f = "from_name" -> {"with_from_name"}
      [] f = "html" -> {"with_html"}
      [] f = "text" -> {"with_text"}
      [] f = "reply_to" -> {"with_reply_to"}
      [] f = "template_slug" -> {"with_template"}
      [] f = "template_version" -> {"with_template_version"}
      [] f = "project_id" -> {"with_project_id"}
      [] f = "substitution_data" -> {"with_substitution", "with_substitution_data"}
      [] f = "metadata" -> {"with_metadata_entry", "with_metadata"}
      [] f = "attachments" -> {"with_attachment"}
      [] f = "options" -> {"with_click_tracking", "with_open_tracking",
                           "with_transactional"}

\* C15: the body of emails.send has from, to and subject; it has an optional
\* field exactly when a builder method set it, and a flag inside options
\* exactly when its method was called; an attachment has its MIME type under
\* the key `type`.
C15_EmailBodyFields ==
    (pc = "sending" /\ op = "emails.send") =>
        LET b == wire[1].body[2][2] IN
        /\ arg = draft.value
        /\ wire[1].body[1] = "json"
        /\ DOMAIN b \subseteq
             {"from", "to", "subject", "from_name", "html", "text", "reply_to",
              "template_slug", "template_version", "project_id",
              "substitution_data", "metadata", "attachments", "options"}
        /\ {"from", "to", "subject"} \subseteq DOMAIN b
        /\ \A f \in {"from_name", "html", "text", "reply_to", "template_slug",
                     "template_version", "project_id", "substitution_data",
                     "metadata", "attachments", "options"} :
              f \in DOMAIN b <=> \E m \in EmailSetters(f) : Called(m)
        /\ "options" \in DOMAIN b =>
              \A flag \in {"click_tracking", "open_tracking", "transactional"} :
                 flag \in DOMAIN b["options"][2] <=> Called("with_" \o flag)
        /\ "attachments" \in DOMAIN b =>
              \A n \in 1..Len(b["attachments"][2]) :
                 /\ DOMAIN b["attachments"][2][n][2] = {"name", "type", "data"}
                 /\ b["attachments"][2][n][2]["type"] =
                       JStr(arg.attachments[1][n].content_type)

\* C15 witness: an email with an attachment, click tracking and html goes out
\* with these three optional fields and no other
C15_Witness ==
    /\ pc = "sending"
    /\ op = "emails.send"
    /\ called = <<"with_attachment", "with_click_tracking", "with_html">>
    /\ DOMAIN wire[1].body[2][2] =
          {"from", "to", "subject", "html", "attachments", "options"}
    /\ wire[1].body[2][2]["attachments"][2][1][2]["type"] = JStr("application/pdf")
    /\ DOMAIN wire[1].body[2][2]["options"][2] = {"click_tracking"}

\* what a call returns by its own request and the response to it
OwnOutcome(call) ==
    IF call.failure # "none" THEN Err(Http(call.failure))
    ELSE IF call.status \in 200..299
         THEN IF call.op = "domains.delete" THEN Ok(<<"()">>)
              ELSE DecodeSuccess(call.op, call.body)
         ELSE Err(ClassifyError(call.status, call.body))

\* the request of a call is the one of its own operation and argument, with
\* the credential of the shared configuration
OwnRequest(call) ==
    /\ Len(call.wire) = 1
    /\ call.wire[1].method = (IF call.op = "domains.delete" THEN "DELETE" ELSE "GET")
    /\ call.wire[1].url =
          "https://app.lettr.com/api"
             \o (IF call.op = "domains.delete" THEN "/domains/" ELSE "/emails/")
             \o call.arg
    /\ call.wire[1].headers["authorization"] = "Bearer " \o key

\* C13, in every state: the request of every call in progress is its own, the
\* result of every finished call is the one its own request and response give,
\* and a call can take its next step whatever the other calls are doing
C13_OwnRequestAndOutcome ==
    \A c \in Callers :
        /\ calls[c].pc # "idle" => OwnRequest(calls[c])
        /\ calls[c].pc = "done" => calls[c].result = OwnOutcome(calls[c])
        /\ calls[c].pc = "idle" => ENABLED ConcEmailsGet(c, 1, "example.com")
        /\ calls[c].pc = "sending" => ENABLED ConcRecvResponse(c, 200)
        /\ calls[c].pc = "reading" => ENABLED ConcReadText(c, EmptyBody)
        /\ calls[c].pc = "decoding" => ENABLED ConcDecodeJson(c, EmptyBody)

\* C13, in every step: the step of one call leaves every other call and the
\* configuration as they are
C13_StepOfOneCall ==
    /\ heap' = heap
    /\ \A c \in Callers, d \in Callers :
          (c # d /\ calls'[c] # calls[c]) => calls'[d] = calls[d]

\* C13: under every interleaving of the calls made through one client and its
\* clones, each call has its own request and the result its own response
\* gives, no step of a call touches another call, and no call waits for
\* another.
C13_CallsIndependent ==
    [](C13_OwnRequestAndOutcome) /\ [][C13_StepOfOneCall]_vars

\* C13 witness: two calls of the same operation, made through the client and
\* its clone, were in flight together and ended differently, each by its own
\* response
C13_Witness ==
    /\ calls[1].pc = "done" /\ calls[2].pc = "done"
    /\ calls[1].op = "emails.get" /\ calls[2].op = "emails.get"
    /\ calls[1].via = 1 /\ calls[2].via = 2
    /\ calls[1].status = 404 /\ calls[2].status = 200
    /\ calls[1].result = Err(Api("Invalid", None))
    /\ calls[2].result = Ok(<<"GetEmailResponse", <<"r1">>>>)

\* the key has a character that is not ASCII: a byte from 128 up
HasNonAscii(k) == \E n \in 1..Len(KeyBytes(k)) : KeyBytes(k)[n] >= 128

\* C19 as stated: with a key that has a non-ASCII character, Lettr::new
\* panics; there is never a client value, and no request ever goes out.
C19_NonAsciiKeyPanicsAtConstruction ==
    (HasNonAscii(key) /\ pc # "new") =>
        /\ pc = "panicked"
        /\ lettrs = <<>>
        /\ heap = <<>>
        /\ wire = <<>>

\* C24: for every operation but domains.delete, a success status with a body
\* whose data is well-formed and whose message is missing or is not a string
\* makes the operation return an error, not the data.
C24_MessageIsRequired ==
    ( /\ pc = "done"
      /\ status \in 200..299
      /\ op # "domains.delete"
      /\ stream = "complete"
      /\ body.form = "object"
      /\ JTag(body.data) = "payload"
      /\ body.data[2] = Shape(op)
      /\ JTag(body.message) # "str" ) => ~result.ok

\* C24 witness: webhooks.get answered with 200 and a body that has the
\* webhook under data and no message returned an error
C24_Witness ==
    /\ pc = "done"
    /\ op = "webhooks.get"
    /\ status = 200
    /\ stream = "complete"
    /\ body.message = Absent
    /\ body.data = Payload("Webhook", <<"r1">>)
    /\ ~result.ok

\* the step is a call of the builder method
LastCalled(method) ==
    /\ Len(called') = Len(called) + 1
    /\ called'[Len(called')] = method

\* the step leaves every field of the options value but these as it was
OthersUnchanged(fields) ==
    \A f \in DOMAIN draft.value \ fields : draft'.value[f] = draft.value[f]

\* the list under the field before the step, empty when the field is None
OldList(f) == IF draft.value[f] = None THEN <<>> ELSE draft.value[f][1]

\* the keys of the map under the field before the step
OldKeys(f) == IF draft.value[f] = None THEN {} ELSE DOMAIN draft.value[f][1]

\* the step adds one value at the end of the list under the field
PushedTo(f, values) ==
    /\ \E x \in values : draft'.value[f] = Some(Append(OldList(f), x))
    /\ OthersUnchanged({f})

\* the step sets one key of the map under the field and keeps the others
InsertedInto(f) ==
    /\ draft'.value[f] # None
    /\ \E k \in MapKeys, v \in MapValues :
          /\ DOMAIN draft'.value[f][1] = OldKeys(f) \cup {k}
          /\ draft'.value[f][1][k] = v
          /\ \A x \in OldKeys(f) \ {k} : draft'.value[f][1][x] = draft.value[f][1][x]
    /\ OthersUnchanged({f})

\* the step sets one flag of the options and keeps the other two
FlagSet(flag) ==
    /\ draft'.value.options # None
    /\ draft'.value.options[1][flag] \in {Some(TRUE), Some(FALSE)}
    /\ \A g \in {"click_tracking", "open_tracking", "transactional"} \ {flag} :
          draft'.value.options[1][g] =
             IF draft.value.options = None THEN None ELSE draft.value.options[1][g]
    /\ OthersUnchanged({"options"})

\* C22: in every chain of builder calls, with_reply_to and with_attachment
\* add to the end of the list and keep what it held, with_substitution and
\* with_metadata_entry set the one key and keep the other keys, each of the
\* three flag methods sets its own flag and keeps the other two, and each of
\* them leaves every other field as it was.
C22_IncrementalBuildersKeepEarlierValues ==
    [][ /\ LastCalled("with_reply_to") => PushedTo("reply_to", Addresses)
        /\ LastCalled("with_attachment") => PushedTo("attachments", Attachments)
        /\ LastCalled("with_substitution") => InsertedInto("substitution_data")
        /\ LastCalled("with_metadata_entry") => InsertedInto("metadata")
        /\ LastCalled("with_click_tracking") => FlagSet("click_tracking")
        /\ LastCalled("with_open_tracking") => FlagSet("open_tracking")
        /\ LastCalled("with_transactional") => FlagSet("transactional") ]_vars

\* C22 witness: two reply-to addresses with a flag set in between are both
\* there, in the order of the calls, and the flag is still set
C22_Witness ==
    /\ called = <<"with_reply_to", "with_click_tracking", "with_reply_to">>
    /\ draft.value.reply_to = Some(<<"support@example.com", "reply@example.com">>)
    /\ draft.value.options = Some([click_tracking |-> Some(TRUE),
                                   open_tracking |-> None, transactional |-> None])

\* the step puts one of the maps under the field, whatever was there, and
\* leaves every other field as it was
ReplacedBy(f, maps) ==
    /\ \E m \in maps : draft'.value[f] = Some(m)
    /\ OthersUnchanged({f})

\* the two maps have the same keys and the same value under each
SameMap(m1, m2) ==
    /\ DOMAIN m1 = DOMAIN m2
    /\ \A x \in DOMAIN m1 : m1[x] = m2[x]

\* C23, on every options value a chain of builder calls can make: the entry
\* and then the map gives exactly the map; the map and then the entry gives
\* the map with the entry set; the two differ when the key is not in the map.
\* The same for the metadata.
C23_EntryThenMapIsTheMap ==
    draft.type = "CreateEmailOptions" =>
        \A k \in MapKeys, v \in MapValues, m \in Maps :
            LET o == draft.value
                sm == EmailWithSubstitutionData(EmailWithSubstitution(o, k, v), m)
                ms == EmailWithSubstitution(EmailWithSubstitutionData(o, m), k, v)
                em == EmailWithMetadata(EmailWithMetadataEntry(o, k, v), m)
                me == EmailWithMetadataEntry(EmailWithMetadata(o, m), k, v)
            IN /\ sm.substitution_data # None
               /\ SameMap(sm.substitution_data[1], m)
               /\ DOMAIN ms.substitution_data[1] = DOMAIN m \cup {k}
               /\ ms.substitution_data[1][k] = v
               /\ \A x \in DOMAIN m \ {k} : ms.substitution_data[1][x] = m[x]
               /\ k \notin DOMAIN m =>
                     ~SameMap(sm.substitution_data[1], ms.substitution_data[1])
               /\ em.metadata # None
               /\ SameMap(em.metadata[1], m)
               /\ DOMAIN me.metadata[1] = DOMAIN m \cup {k}
               /\ me.metadata[1][k] = v
               /\ \A x \in DOMAIN m \ {k} : me.metadata[1][x] = m[x]
               /\ k \notin DOMAIN m => ~SameMap(em.metadata[1], me.metadata[1])

\* C23, in every step: with_substitution_data and with_metadata put the map
\* they are given in the place of the one that was there
C23_MapStep ==
    /\ LastCalled("with_substitution_data") => ReplacedBy("substitution_data", Maps)
    /\ LastCalled("with_metadata") => ReplacedBy("metadata", Maps)

\* C23: with_substitution_data and with_metadata replace the whole map: the
\* entries set before are lost unless the new map has them, the entries set
\* after are kept, and an entry and a map that does not have its key do not
\* commute.
C23_MapBuildersReplace ==
    [](C23_EntryThenMapIsTheMap) /\ [][C23_MapStep]_vars

\* C23 witness: the entry under `name` is gone after the map with `plan`
\* alone was given, and the entry set after that is kept beside `plan`
C23_Witness ==
    /\ called = <<"with_substitution", "with_substitution_data", "with_substitution">>
    /\ draft.value.substitution_data # None
    /\ DOMAIN draft.value.substitution_data[1] = {"name", "plan"}
    /\ draft.value.substitution_data[1]["plan"] = JStr("pro")
    /\ draft.value.substitution_data[1]["name"] = JStr("Ada")

\* the path of the operation with its identifier as the caller gave it
PathOf(o, a) ==
    CASE o = "health" -> "/health"
      [] o = "auth_check" -> "/auth/check"
      [] o \in {"emails.send", "emails.list"} -> "/emails"
      [] o = "emails.get" -> "/emails/" \o a
      [] o \in {"domains.list", "domains.create"} -> "/domains"
      [] o \in {"domains.get", "domains.delete"} -> "/domains/" \o a
      [] o \in {"templates.list", "templates.create"} -> "/templates"
      [] o = "webhooks.list" -> "/webhooks"
      [] o = "webhooks.get" -> "/webhooks/" \o a

\* C21 as stated: the URL every request goes to is the base URL of the
\* configuration, https://app.lettr.com/api when nothing overrode it, followed
\* by the path of the operation with the identifier as it was given.
C21_UrlIsBaseThenPathVerbatim ==
    (pc # "idle") =>
        /\ heap[1].base_url = "https://app.lettr.com/api"
        /\ wire[1].target = heap[1].base_url \o PathOf(op, arg)

====
